---- MODULE Spec2Model ----
(***************************************************************************)
(* UTIL_countCores of programs/util.c: the six platform backends and the   *)
(* function-local static numCores that memoizes their result.              *)
(*                                                                         *)
(* One process, NThreads threads.  Every access of a thread to the static  *)
(* numCores is one step, so that the unsynchronised reads and writes of    *)
(* the C code interleave in every order.  The operating system answers     *)
(* each query when it is issued, with any answer a real machine can give:  *)
(* processor counts are >= 1 and a topology holds a processor core.        *)
(* Concurrent calls are the behaviours of Spec; SeqSpec is the same        *)
(* program with its calls made one after another, FairSeqSpec adds that a  *)
(* thread inside a Windows call keeps running, and BitsSpec runs           *)
(* CountSetBits alone, step by step, on every mask of the word.            *)
(***************************************************************************)
EXTENDS Integers, Sequences, FiniteSets, TLC

(* ------------------------------ bounds -------------------------------- *)
NThreads == 2
MaxCalls == 3
MaxCpu == 2
MaxEntries == 2
PtrBits == 5

(* ------------------------- program constants -------------------------- *)
ENOENT == "ENOENT"
EIO == "EIO"
NoError == "0"
BUF_SIZE == 80
SizeofSLPI == 32

Threads == 1..NThreads

Backends == {"win32", "apple", "linux", "freebsd", "freebsd_old", "posix", "unknown"}

RelationProcessorCore == "RelationProcessorCore"
RelationCache == "RelationCache"

VARIABLES
    backend,      \* the #if branch the build selected
    concurrent,   \* FALSE: the calls of the process are made one after another
    numCores,     \* static int numCores
    pc,           \* each thread's position in UTIL_countCores
    loc,          \* each thread's automatic variables
    calls,        \* calls of UTIL_countCores begun so far in the process
    exited,       \* exit(1) was called: the process is gone
    retVal,       \* value returned by each thread's last completed call
    nret,         \* number of calls that have returned
    firstRet,     \* value returned by the first call that returned
    passes,       \* detection passes begun (calls that got past the cache guard)
    lateWork,     \* an OS query, file operation or allocation was issued after a call had returned
    told,         \* told[q]: the first answer the OS gave to query q, as <<answer>>
    consistent,   \* the OS has answered every query the same way each time
    lastWriter,   \* the thread, if any, whose unfinished pass wrote numCores last
    seen,         \* seen[t]: values written by t's unfinished pass that a call returned
    halfObserved, \* a call returned a value that the pass which wrote it replaced
    csb           \* a call of CountSetBits run on its own: its position and variables

vars == <<backend, concurrent, numCores, pc, loc, calls, exited, retVal,
          nret, firstRet, passes, lateWork, told, consistent, lastWriter, seen,
          halfObserved, csb>>

(* --------------------------- pure functions --------------------------- *)
RECURSIVE Pow2(_)
Pow2(n) == IF n = 0 THEN 1 ELSE 2 * Pow2(n - 1)

\* a & b over an n-bit word
RECURSIVE BitAnd(_, _, _)
BitAnd(a, b, n) ==
    IF n = 0 THEN 0
    ELSE ((a % 2) * (b % 2)) + 2 * BitAnd(a \div 2, b \div 2, n - 1)

LSHIFT == PtrBits - 1

\* for (i = 0; i <= LSHIFT; ++i)
LoopContinuesMutant(i) == i < LSHIFT
LoopContinues(i) == i <= LSHIFT

\* ((bitMask & bitTest) ? 1 : 0)
BitHit(bitMask, bitTest) == IF BitAnd(bitMask, bitTest, PtrBits) # 0 THEN 1 ELSE 0

RECURSIVE CountSetBitsLoop(_, _, _, _)
CountSetBitsLoop(bitMask, bitTest, i, bitSetCount) ==
    IF ~LoopContinues(i) THEN bitSetCount
    ELSE CountSetBitsLoop(bitMask, bitTest \div 2, i + 1,
                          bitSetCount + BitHit(bitMask, bitTest))

CountSetBits(bitMask) == CountSetBitsLoop(bitMask, Pow2(LSHIFT), 0, 0)

IsProcessorCoreMutant(entry) == TRUE
IsProcessorCore(entry) == entry.Relationship = RelationProcessorCore

CacheHitMutant(n) == FALSE
CacheHit(n) == n # 0

JustInCaseMutant(n) == FALSE
JustInCase(n) == n = 0

\* GetLastError() after a call of glpi
ERROR_SUCCESS == "ERROR_SUCCESS"
ERROR_INSUFFICIENT_BUFFER == "ERROR_INSUFFICIENT_BUFFER"
ERROR_GEN_FAILURE == "ERROR_GEN_FAILURE"

\* if (GetLastError() == ERROR_INSUFFICIENT_BUFFER)
IsInsufficientBuffer(err) == err = ERROR_INSUFFICIENT_BUFFER

\* malloc(returnLength): the bytes asked for
MallocSizeMutant(returnLength) == returnLength - 1
MallocSize(returnLength) == returnLength

\* if (buffer == NULL), allocated: the pointer malloc gave
BufferIsNullMutant(allocated) == FALSE
BufferIsNull(allocated) == ~allocated

IsSentinelMutant(n) == FALSE
IsSentinel(n) == n = -1

NotSupportedMutant(e) == FALSE
NotSupportedAlways(e) == TRUE
NotSupported(e) == e = ENOENT

\* if (ret != 0)
SysctlFailedMutant(ret) == FALSE
SysctlFailed(ret) == ret # 0

\* numCores *= perCore
ScaleMutant(n, perCore) == n
Scale(n, perCore) == n * perCore

LinuxResultMutant(n, ratio) == n \div ratio
LinuxResult(n, ratio) == n

(* ------------------ C library, as the Linux backend uses it ----------- *)
NUL == "\\0"
Digits == <<"0", "1", "2", "3", "4", "5", "6", "7", "8", "9">>
IsDigit(c) == \E d \in 1..10 : Digits[d] = c
DigitVal(c) == (CHOOSE d \in 1..10 : Digits[d] = c) - 1
IsSpace(c) == c \in {" ", "\t", "\n", "\r"}

CharAt(s, i) == IF i >= 1 /\ i <= Len(s) THEN s[i] ELSE NUL

\* strncmp(s, lit, n) == 0, lit holding at least n characters
StrncmpEq(s, lit, n) == \A i \in 1..n : CharAt(s, i) = lit[i]

\* strchr(s, c): index of the first c in s, 0 for NULL
Strchr(s, c) ==
    IF \E i \in 1..Len(s) : s[i] = c
    THEN CHOOSE i \in 1..Len(s) : s[i] = c /\ \A j \in 1..(i - 1) : s[j] # c
    ELSE 0

RECURSIVE AtoiDigits(_, _, _)
AtoiDigits(s, i, acc) ==
    IF IsDigit(CharAt(s, i)) THEN AtoiDigits(s, i + 1, 10 * acc + DigitVal(s[i]))
    ELSE acc

RECURSIVE SkipSpace(_, _)
SkipSpace(s, i) == IF IsSpace(CharAt(s, i)) THEN SkipSpace(s, i + 1) ELSE i

\* atoi of the text of s that starts at index i
Atoi(s, i) ==
    LET j == SkipSpace(s, i)
    IN  IF CharAt(s, j) = "-" THEN 0 - AtoiDigits(s, j + 1, 0)
        ELSE IF CharAt(s, j) = "+" THEN AtoiDigits(s, j + 1, 0)
        ELSE AtoiDigits(s, j, 0)

\* fgets(buff, BUF_SIZE, f) at offset pos of the stream: the characters read,
\* at most BUF_SIZE - 1 of them, up to and including the first newline
Fgets(stream, pos) ==
    LET limit == IF Len(stream) < pos + BUF_SIZE - 1 THEN Len(stream) ELSE pos + BUF_SIZE - 1
        newlines == {i \in (pos + 1)..limit : stream[i] = "\n"}
        last == IF newlines = {} THEN limit
                ELSE CHOOSE i \in newlines : \A j \in newlines : i <= j
    IN  SubSeq(stream, pos + 1, last)

\* the read ran into the end of the stream
FgetsHitEof(stream, pos) ==
    LET got == Fgets(stream, pos)
    IN  /\ pos + Len(got) >= Len(stream)
        /\ (got = <<>> \/ (got[Len(got)] # "\n" /\ Len(got) < BUF_SIZE - 1))

StrSiblings == <<"s", "i", "b", "l", "i", "n", "g", "s">>
StrCpuCores == <<"c", "p", "u", " ", "c", "o", "r", "e", "s">>

(* ------------------- what the operating system can answer ------------- *)
CpuCounts == 1..MaxCpu

\* the masks of the reported entries: every bit of the word set
TopoMasks == {Pow2(PtrBits) - 1}
Entries == [Relationship : {RelationProcessorCore, RelationCache}, ProcessorMask : TopoMasks]
\* every machine has a processor core
Topologies ==
    {s \in UNION {[1..n -> Entries] : n \in 1..MaxEntries} :
        \E i \in 1..Len(s) : s[i].Relationship = RelationProcessorCore}

GlpiAnswers == {[ok |-> FALSE, topo |-> <<>>]} \cup {[ok |-> TRUE, topo |-> s] : s \in Topologies}

SysctlOk == {[ok |-> TRUE, val |-> v] : v \in CpuCounts}
SysctlErr(errnos) == {[ok |-> FALSE, val |-> e] : e \in errnos}

SysconfAnswers == {-1} \cup CpuCounts

FileNoFields == <<"p", "r", "o", "c", "e", "s", "s", "o", "r", "\t", ":", " ", "0", "\n", "f", "l", "a", "g", "s", "\t", ":", " ", "f", "p", "u", "\n">>
FileHyperthreaded == <<"s", "i", "b", "l", "i", "n", "g", "s", "\t", ":", " ", "8", "\n", "c", "p", "u", " ", "c", "o", "r", "e", "s", "\t", ":", " ", "4", "\n">>
FileNoColon == <<"s", "i", "b", "l", "i", "n", "g", "s", " ", "8", "\n", "c", "p", "u", " ", "c", "o", "r", "e", "s", "\t", ":", " ", "4", "\n">>
FileCoresNoColon == <<"s", "i", "b", "l", "i", "n", "g", "s", "\t", ":", " ", "8", "\n", "c", "p", "u", " ", "c", "o", "r", "e", "s">>
FileLongLine == [i \in 1..(BUF_SIZE + 10) |-> "x"] \o <<"\n">> \o <<"s", "i", "b", "l", "i", "n", "g", "s", ":", " ", "4", "\n", "c", "p", "u", " ", "c", "o", "r", "e", "s", ":", " ", "2", "\n">>
CpuinfoFiles == {<<>>, FileNoFields, FileHyperthreaded, FileNoColon, FileCoresNoColon, FileLongLine}
FopenAnswers == {[ok |-> FALSE, file |-> <<>>]} \cup {[ok |-> TRUE, file |-> f] : f \in CpuinfoFiles}

Queries == {"GetProcAddress", "glpi", "GetSystemInfo", "hw.logicalcpu", "sysconf",
            "fopen", "kern.smp.cores", "kern.smp.threads_per_core"}

(* ------------------------------- state --------------------------------- *)
InitLoc ==
    [path |-> "none",          \* how the call went: "hit", "pass", then the branch taken
     glpi |-> FALSE,           \* LPFN_GLPI glpi != NULL
     buffer |-> <<>>,          \* what *buffer holds
     allocated |-> FALSE,      \* buffer != NULL and not yet freed
     live |-> 0,               \* heap blocks this call owns
     returnLength |-> 0,
     byteOffset |-> 0,
     nGlpi |-> 0,              \* calls of glpi made
     errors |-> <<>>,          \* GetLastError() after each of them
     capacity |-> 0,           \* bytes of the block buffer points to
     nMalloc |-> 0,            \* calls of malloc made
     mallocNull |-> FALSE,     \* malloc has returned NULL
     perror |-> "",            \* what perror was given
     exitStatus |-> 0,         \* what exit was given
     tmp |-> 0,                \* register holding numCores in a read-modify-write
     dwNumberOfProcessors |-> 0,
     base |-> 0,               \* what sysconf answered
     errno |-> NoError,
     ret |-> 0,                \* what sysctlbyname returned
     nSysctl |-> 0,            \* calls of sysctlbyname made
     logicalcpu |-> 0,         \* what hw.logicalcpu answered
     cores |-> 0,              \* what kern.smp.cores answered
     perCore |-> 1,
     open |-> FALSE,           \* FILE* cpuinfo is open
     file |-> <<>>,            \* the stream behind cpuinfo
     fpos |-> 0,
     eof |-> FALSE,
     siblings |-> 0,
     cpu_cores |-> 0,
     ratio |-> 1]

\* CountSetBits before it is entered with the argument m
CsbEntry(m) ==
    [pc |-> "entry", bitMask |-> m, bitTest |-> 0, i |-> 0, bitSetCount |-> 0,
     tested |-> <<>>,         \* the values of bitTest the mask was tested with
     result |-> 0]

InitCommon ==
    /\ csb = CsbEntry(0)
    /\ backend \in Backends
    /\ numCores = 0
    /\ pc = [t \in Threads |-> "idle"]
    /\ loc = [t \in Threads |-> InitLoc]
    /\ calls = 0
    /\ exited = FALSE
    /\ retVal = [t \in Threads |-> 0]
    /\ nret = 0
    /\ firstRet = 0
    /\ passes = 0
    /\ lateWork = FALSE
    /\ told = [q \in Queries |-> <<>>]
    /\ consistent = TRUE
    /\ lastWriter = {}
    /\ seen = [t \in Threads |-> {}]
    /\ halfObserved = FALSE

Init == InitCommon /\ concurrent = TRUE

SeqInit == InitCommon /\ concurrent = FALSE

(* ------------------------------- helpers ------------------------------- *)
\* thread t is at label l of the backend b
At(t, b, l) == ~exited /\ backend \in b /\ pc[t] = l

Goto(t, l) == pc' = [pc EXCEPT ![t] = l]

\* the OS answers a to query q
Ask(q, a) ==
    /\ told' = [told EXCEPT ![q] = IF @ = <<>> THEN <<a>> ELSE @]
    /\ consistent' = (consistent /\ told[q] \in {<<>>, <<a>>})
    /\ lateWork' = (lateWork \/ nret > 0)

\* file I/O or allocation
Work == lateWork' = (lateWork \/ nret > 0) /\ UNCHANGED <<told, consistent>>

\* a write of numCores by t's pass
Store(t, v) == numCores' = v /\ lastWriter' = {t}

\* the call of t returns v; fromStatic: v was read from numCores by this step
Return(t, v, fromStatic) ==
    /\ pc' = [pc EXCEPT ![t] = "idle"]
    /\ retVal' = [retVal EXCEPT ![t] = v]
    /\ nret' = nret + 1
    /\ firstRet' = IF nret = 0 THEN v ELSE firstRet
    /\ seen' = [u \in Threads |->
                  IF u = t THEN {}
                  ELSE IF fromStatic /\ u \in lastWriter THEN seen[u] \cup {v}
                  ELSE seen[u]]
    /\ halfObserved' = (halfObserved \/ (seen[t] \ {v}) # {})

\* return numCores;
ReturnStatic(t) ==
    /\ Return(t, numCores, TRUE)
    /\ lastWriter' = lastWriter \ {t}
    /\ UNCHANGED numCores

Frame == UNCHANGED <<backend, concurrent, exited, passes, csb>>
NoReturn == UNCHANGED <<retVal, nret, firstRet, seen, halfObserved>>
NoStore == UNCHANGED <<numCores, lastWriter>>
NoAsk == UNCHANGED <<lateWork, told, consistent>>

FirstLabel ==
    CASE backend = "win32" -> "resolve"
      [] backend = "apple" -> "sysctl"
      [] backend = "freebsd" -> "cores"
      [] OTHER -> "sysconf"

MayEnter(t) ==
    /\ ~exited
    /\ pc[t] = "idle"
    /\ calls < MaxCalls
    /\ concurrent \/ \A u \in Threads : pc[u] = "idle"

(* --------------------------- the cache guard --------------------------- *)
\* if (numCores != 0) return numCores;
GuardHit(t) ==
    /\ MayEnter(t)
    /\ backend # "unknown"
    /\ CacheHit(numCores)
    /\ calls' = calls + 1
    /\ loc' = [loc EXCEPT ![t] = [InitLoc EXCEPT !.path = "hit"]]
    /\ ReturnStatic(t)
    /\ Frame /\ NoAsk

GuardMiss(t) ==
    /\ MayEnter(t)
    /\ backend # "unknown"
    /\ ~CacheHit(numCores)
    /\ calls' = calls + 1
    /\ loc' = [loc EXCEPT ![t] = [InitLoc EXCEPT !.path = "pass"]]
    /\ Goto(t, FirstLabel)
    /\ passes' = passes + 1
    /\ UNCHANGED <<backend, concurrent, exited, csb>> /\ NoAsk /\ NoStore /\ NoReturn

(* ------------------------------ Windows -------------------------------- *)
WinResolve(t) ==
    /\ At(t, {"win32"}, "resolve")
    /\ \E ok \in BOOLEAN :
          /\ Ask("GetProcAddress", ok)
          /\ loc' = [loc EXCEPT ![t].glpi = ok]
          /\ Goto(t, IF ok THEN "glpi" ELSE "failed")
    /\ UNCHANGED calls /\ Frame /\ NoStore /\ NoReturn

\* DWORD rc = glpi(buffer, &returnLength); and the branch on it
WinGlpi(t) ==
    /\ At(t, {"win32"}, "glpi")
    /\ \E a \in GlpiAnswers :
        LET needed == Len(a.topo) * SizeofSLPI
            l == loc[t]
            err == IF ~a.ok THEN ERROR_GEN_FAILURE
                   ELSE IF l.returnLength < needed THEN ERROR_INSUFFICIENT_BUFFER
                   ELSE ERROR_SUCCESS
            called == [l EXCEPT !.nGlpi = @ + 1,
                                !.errors = Append(@, err),
                                !.returnLength = IF a.ok THEN needed ELSE @]
        IN  /\ Ask("glpi", a)
            /\ IF err = ERROR_SUCCESS
               THEN /\ loc' = [loc EXCEPT ![t] = [called EXCEPT !.buffer = a.topo,
                                                                !.path = "walk"]]
                    /\ Goto(t, "walk")
               ELSE IF IsInsufficientBuffer(err)
               THEN /\ loc' = [loc EXCEPT ![t] = called]
                    /\ Goto(t, "malloc")
               ELSE /\ loc' = [loc EXCEPT ![t] = [called EXCEPT !.path = "failed"]]
                    /\ Goto(t, "failed")
    /\ UNCHANGED calls /\ Frame /\ NoStore /\ NoReturn

\* if (buffer) free(buffer); buffer = malloc(returnLength);
WinMalloc(t) ==
    /\ At(t, {"win32"}, "malloc")
    /\ loc' = [loc EXCEPT ![t].allocated = TRUE,
                          ![t].live = IF loc[t].allocated THEN @ ELSE @ + 1,
                          ![t].capacity = MallocSize(loc[t].returnLength),
                          ![t].nMalloc = @ + 1]
    /\ Goto(t, "glpi")
    /\ Work
    /\ UNCHANGED calls /\ Frame /\ NoStore /\ NoReturn

\* buffer == NULL: perror("lz4"); exit(1);
WinMallocFails(t) ==
    /\ At(t, {"win32"}, "malloc")
    /\ LET l == [loc[t] EXCEPT !.allocated = FALSE,
                               !.live = IF loc[t].allocated THEN @ - 1 ELSE @,
                               !.capacity = 0,
                               !.nMalloc = @ + 1,
                               !.mallocNull = TRUE]
       IN  IF BufferIsNull(l.allocated)
           THEN /\ loc' = [loc EXCEPT ![t] = [l EXCEPT !.path = "exit", !.perror = "lz4",
                                                       !.exitStatus = 1]]
                /\ Goto(t, "exit")
                /\ exited' = TRUE
           ELSE /\ loc' = [loc EXCEPT ![t] = l]
                /\ Goto(t, "glpi")
                /\ UNCHANGED exited
    /\ Work
    /\ UNCHANGED <<calls, backend, concurrent, passes, csb>> /\ NoStore /\ NoReturn

WalkEntry(t) == loc[t].buffer[(loc[t].byteOffset \div SizeofSLPI) + 1]
WalkMore(t) == loc[t].byteOffset + SizeofSLPI <= loc[t].returnLength

\* an entry that is no processor core: ptr++, byteOffset += sizeof
WinWalkSkip(t) ==
    /\ At(t, {"win32"}, "walk")
    /\ WalkMore(t)
    /\ ~IsProcessorCore(WalkEntry(t))
    /\ loc' = [loc EXCEPT ![t].byteOffset = @ + SizeofSLPI]
    /\ UNCHANGED <<calls, pc>> /\ Frame /\ NoAsk /\ NoStore /\ NoReturn

\* numCores += CountSetBits(...): the read of numCores
WinWalkLoad(t) ==
    /\ At(t, {"win32"}, "walk")
    /\ WalkMore(t)
    /\ IsProcessorCore(WalkEntry(t))
    /\ loc' = [loc EXCEPT ![t].tmp = numCores]
    /\ Goto(t, "add")
    /\ UNCHANGED calls /\ Frame /\ NoAsk /\ NoStore /\ NoReturn

\* numCores += CountSetBits(...): the write, then ptr++, byteOffset += sizeof
WinWalkAdd(t) ==
    /\ At(t, {"win32"}, "add")
    /\ Store(t, loc[t].tmp + CountSetBits(WalkEntry(t).ProcessorMask))
    /\ loc' = [loc EXCEPT ![t].byteOffset = @ + SizeofSLPI]
    /\ Goto(t, "walk")
    /\ UNCHANGED calls /\ Frame /\ NoAsk /\ NoReturn

\* free(buffer); return numCores;
WinWalkDone(t) ==
    /\ At(t, {"win32"}, "walk")
    /\ ~WalkMore(t)
    /\ loc' = [loc EXCEPT ![t].allocated = FALSE,
                          ![t].live = IF loc[t].allocated THEN @ - 1 ELSE @]
    /\ ReturnStatic(t)
    /\ UNCHANGED calls /\ Frame /\ NoAsk

\* failed: GetSystemInfo(&sysinfo); numCores = sysinfo.dwNumberOfProcessors;
WinFailed(t) ==
    /\ At(t, {"win32"}, "failed")
    /\ \E dw \in 0..MaxCpu :
          /\ Ask("GetSystemInfo", dw)
          /\ Store(t, dw)
          /\ loc' = [loc EXCEPT ![t].dwNumberOfProcessors = dw, ![t].path = "failed"]
    /\ Goto(t, "justincase")
    /\ UNCHANGED calls /\ Frame /\ NoReturn

\* if (numCores == 0)
WinJustInCase(t) ==
    /\ At(t, {"win32"}, "justincase")
    /\ Goto(t, IF JustInCase(numCores) THEN "setone" ELSE "ret")
    /\ UNCHANGED <<calls, loc>> /\ Frame /\ NoAsk /\ NoStore /\ NoReturn

\* numCores = 1;
WinSetOne(t) ==
    /\ At(t, {"win32"}, "setone")
    /\ Store(t, 1)
    /\ Goto(t, "ret")
    /\ UNCHANGED <<calls, loc>> /\ Frame /\ NoAsk /\ NoReturn

WinFailedReturn(t) ==
    /\ At(t, {"win32"}, "ret")
    /\ ReturnStatic(t)
    /\ UNCHANGED <<calls, loc>> /\ Frame /\ NoAsk

(* ------------------------------- Apple --------------------------------- *)
\* ret = sysctlbyname("hw.logicalcpu", &numCores, &size, NULL, 0);
AppleSysctl(t) ==
    /\ At(t, {"apple"}, "sysctl")
    /\ \E a \in SysctlOk \cup SysctlErr({ENOENT, EIO}) :
        LET ret == IF a.ok THEN 0 ELSE -1
        IN  /\ Ask("hw.logicalcpu", a)
            /\ IF a.ok THEN Store(t, a.val) ELSE NoStore
            /\ loc' = [loc EXCEPT ![t].ret = ret,
                                  ![t].nSysctl = @ + 1,
                                  ![t].logicalcpu = IF a.ok THEN a.val ELSE @,
                                  ![t].errno = IF a.ok THEN @ ELSE a.val]
            /\ Goto(t, IF SysctlFailed(ret) THEN "fallback" ELSE "ret")
    /\ UNCHANGED calls /\ Frame /\ NoReturn

\* numCores = 1;
AppleFallback(t) ==
    /\ At(t, {"apple"}, "fallback")
    /\ Store(t, 1)
    /\ loc' = [loc EXCEPT ![t].path = "fallback"]
    /\ Goto(t, "ret")
    /\ UNCHANGED calls /\ Frame /\ NoAsk /\ NoReturn

AppleReturn(t) ==
    /\ At(t, {"apple"}, "ret")
    /\ ReturnStatic(t)
    /\ UNCHANGED <<calls, loc>> /\ Frame /\ NoAsk

(* ------------------------- sysconf, three times ------------------------ *)
\* numCores = (int)sysconf(_SC_NPROCESSORS_ONLN);
SysconfStore(t) ==
    /\ \E v \in SysconfAnswers :
          /\ Ask("sysconf", v)
          /\ Store(t, v)
          /\ loc' = [loc EXCEPT ![t].base = v]
    /\ Goto(t, "sentinel")
    /\ UNCHANGED calls /\ Frame /\ NoReturn

\* if (numCores == -1)
SentinelTest(t, next) ==
    /\ Goto(t, IF IsSentinel(numCores) THEN "setone" ELSE next)
    /\ UNCHANGED <<calls, loc>> /\ Frame /\ NoAsk /\ NoStore /\ NoReturn

\* numCores = 1;
SentinelSetOne(t) ==
    /\ Store(t, 1)
    /\ Goto(t, "ret")
    /\ UNCHANGED <<calls, loc>> /\ Frame /\ NoAsk /\ NoReturn

PosixSysconf(t) == At(t, {"posix"}, "sysconf") /\ SysconfStore(t)
PosixSentinel(t) == At(t, {"posix"}, "sentinel") /\ SentinelTest(t, "ret")
PosixSetOne(t) == At(t, {"posix"}, "setone") /\ SentinelSetOne(t)
PosixReturn(t) ==
    /\ At(t, {"posix"}, "ret")
    /\ ReturnStatic(t)
    /\ UNCHANGED <<calls, loc>> /\ Frame /\ NoAsk

(* ------------------------------- Linux --------------------------------- *)
LinuxSysconf(t) == At(t, {"linux"}, "sysconf") /\ SysconfStore(t)
LinuxSentinel(t) == At(t, {"linux"}, "sentinel") /\ SentinelTest(t, "fopen")

\* return numCores = 1;
LinuxSetOne(t) ==
    /\ At(t, {"linux"}, "setone")
    /\ numCores' = 1
    /\ lastWriter' = {}
    /\ Return(t, 1, FALSE)
    /\ loc' = [loc EXCEPT ![t].path = "sentinel"]
    /\ UNCHANGED calls /\ Frame /\ NoAsk

\* FILE* const cpuinfo = fopen("/proc/cpuinfo", "r");
LinuxFopen(t) ==
    /\ At(t, {"linux"}, "fopen")
    /\ \E a \in FopenAnswers :
          /\ Ask("fopen", a)
          /\ loc' = [loc EXCEPT ![t].open = a.ok, ![t].file = a.file,
                                ![t].path = IF a.ok THEN "cpuinfo" ELSE "nofile"]
          /\ Goto(t, IF a.ok THEN "fgets" ELSE "ret")
    /\ UNCHANGED calls /\ Frame /\ NoStore /\ NoReturn

\* if (cpuinfo == NULL) return numCores;
LinuxNoFileReturn(t) ==
    /\ At(t, {"linux"}, "ret")
    /\ ReturnStatic(t)
    /\ UNCHANGED <<calls, loc>> /\ Frame /\ NoAsk

\* one line of the loop body: the two strncmp blocks
AfterLine(l, buff) ==
    LET sep == Strchr(buff, ":")
        isSib == StrncmpEq(buff, StrSiblings, 8)
        isCores == StrncmpEq(buff, StrCpuCores, 9)
        broken == sep = 0 \/ CharAt(buff, sep) = NUL
    IN  IF (isSib \/ isCores) /\ broken
        THEN [l EXCEPT !.path = "malformed"]
        ELSE [l EXCEPT !.siblings = IF isSib THEN Atoi(buff, sep + 1) ELSE @,
                       !.cpu_cores = IF isCores THEN Atoi(buff, sep + 1) ELSE @]

\* while (!feof(cpuinfo)) { if (fgets(buff, BUF_SIZE, cpuinfo) != NULL) ...
LinuxFgets(t) ==
    /\ At(t, {"linux"}, "fgets")
    /\ ~loc[t].eof
    /\ LET l == loc[t]
           buff == Fgets(l.file, l.fpos)
           read == [l EXCEPT !.fpos = @ + Len(buff), !.eof = FgetsHitEof(l.file, l.fpos)]
           next == IF buff = <<>> THEN read ELSE AfterLine(read, buff)
       IN  /\ loc' = [loc EXCEPT ![t] = next]
           /\ Goto(t, IF next.path = "malformed" THEN "fclose" ELSE "fgets")
    /\ Work
    /\ UNCHANGED calls /\ Frame /\ NoStore /\ NoReturn

\* fgets returns NULL and ferror(cpuinfo) is set
LinuxFgetsError(t) ==
    /\ At(t, {"linux"}, "fgets")
    /\ ~loc[t].eof
    /\ loc' = [loc EXCEPT ![t].path = "ferror"]
    /\ Goto(t, "fclose")
    /\ Work
    /\ UNCHANGED calls /\ Frame /\ NoStore /\ NoReturn

\* the loop ends: if (siblings && cpu_cores && siblings > cpu_cores) ratio = ...
LinuxRatio(t) ==
    /\ At(t, {"linux"}, "fgets")
    /\ loc[t].eof
    /\ LET l == loc[t]
       IN  loc' = [loc EXCEPT ![t].ratio =
                      IF l.siblings # 0 /\ l.cpu_cores # 0 /\ l.siblings > l.cpu_cores
                      THEN l.siblings \div l.cpu_cores ELSE @,
                   ![t].path = "scanned"]
    /\ Goto(t, "fclose")
    /\ UNCHANGED calls /\ Frame /\ NoAsk /\ NoStore /\ NoReturn

\* failed: fclose(cpuinfo); return numCores;
LinuxFclose(t) ==
    /\ At(t, {"linux"}, "fclose")
    /\ loc' = [loc EXCEPT ![t].open = FALSE]
    /\ Return(t, LinuxResult(numCores, loc[t].ratio), TRUE)
    /\ lastWriter' = lastWriter \ {t}
    /\ Work
    /\ UNCHANGED <<calls, numCores>> /\ Frame

(* ------------------------------ FreeBSD -------------------------------- *)
\* ret = sysctlbyname("kern.smp.cores", &numCores, &size, NULL, 0);
FreeBSDCores(t) ==
    /\ At(t, {"freebsd"}, "cores")
    /\ \E a \in SysctlOk \cup SysctlErr({ENOENT, EIO}) :
          /\ Ask("kern.smp.cores", a)
          /\ IF a.ok
             THEN /\ Store(t, a.val)
                  /\ loc' = [loc EXCEPT ![t].cores = a.val, ![t].path = "smp",
                                        ![t].nSysctl = @ + 1]
                  /\ Goto(t, "threads_per_core")
             ELSE /\ NoStore
                  /\ loc' = [loc EXCEPT ![t].errno = a.val, ![t].ret = -1,
                                        ![t].nSysctl = @ + 1]
                  /\ Goto(t, "errno")
    /\ UNCHANGED calls /\ Frame /\ NoReturn

\* ret = sysctlbyname("kern.smp.threads_per_core", &perCore, &size, NULL, 0);
FreeBSDThreadsPerCore(t) ==
    /\ At(t, {"freebsd"}, "threads_per_core")
    /\ \E a \in SysctlOk \cup SysctlErr({ENOENT, EIO}) :
          /\ Ask("kern.smp.threads_per_core", a)
          /\ IF a.ok
             THEN /\ loc' = [loc EXCEPT ![t].perCore = a.val, ![t].nSysctl = @ + 1]
                  /\ Goto(t, "scale")
             ELSE /\ loc' = [loc EXCEPT ![t].errno = a.val, ![t].ret = -1,
                                        ![t].nSysctl = @ + 1, ![t].path = "unscaled"]
                  /\ Goto(t, "ret")
    /\ UNCHANGED calls /\ Frame /\ NoStore /\ NoReturn

\* numCores *= perCore: the read
FreeBSDScaleLoad(t) ==
    /\ At(t, {"freebsd"}, "scale")
    /\ loc' = [loc EXCEPT ![t].tmp = numCores]
    /\ Goto(t, "scaleStore")
    /\ UNCHANGED calls /\ Frame /\ NoAsk /\ NoStore /\ NoReturn

\* numCores *= perCore: the write
FreeBSDScaleStore(t) ==
    /\ At(t, {"freebsd"}, "scaleStore")
    /\ Store(t, Scale(loc[t].tmp, loc[t].perCore))
    /\ loc' = [loc EXCEPT ![t].path = "scaled"]
    /\ Goto(t, "ret")
    /\ UNCHANGED calls /\ Frame /\ NoAsk /\ NoReturn

\* if (errno != ENOENT) { perror(...); exit(1); }
FreeBSDFatal(t) ==
    /\ At(t, {"freebsd"}, "errno")
    /\ ~NotSupported(loc[t].errno)
    /\ loc' = [loc EXCEPT ![t].path = "exit",
                          ![t].perror = "lz4: can't get number of cpus",
                          ![t].exitStatus = 1]
    /\ Goto(t, "exit")
    /\ exited' = TRUE
    /\ UNCHANGED <<calls, backend, concurrent, passes, csb>> /\ NoAsk /\ NoStore /\ NoReturn

\* sysctl not present, fall through to older sysconf method
FreeBSDFallThrough(t) ==
    /\ At(t, {"freebsd"}, "errno")
    /\ NotSupported(loc[t].errno)
    /\ loc' = [loc EXCEPT ![t].path = "enoent"]
    /\ Goto(t, "sysconf")
    /\ UNCHANGED calls /\ Frame /\ NoAsk /\ NoStore /\ NoReturn

FreeBSDSysconf(t) == At(t, {"freebsd", "freebsd_old"}, "sysconf") /\ SysconfStore(t)
FreeBSDSentinel(t) == At(t, {"freebsd", "freebsd_old"}, "sentinel") /\ SentinelTest(t, "ret")
FreeBSDSetOne(t) == At(t, {"freebsd", "freebsd_old"}, "setone") /\ SentinelSetOne(t)
FreeBSDReturn(t) ==
    /\ At(t, {"freebsd", "freebsd_old"}, "ret")
    /\ ReturnStatic(t)
    /\ UNCHANGED <<calls, loc>> /\ Frame /\ NoAsk

(* --------------------------- unknown platform -------------------------- *)
\* return 1;
UnknownCountCores(t) ==
    /\ MayEnter(t)
    /\ backend = "unknown"
    /\ calls' = calls + 1
    /\ loc' = [loc EXCEPT ![t] = [InitLoc EXCEPT !.path = "unknown"]]
    /\ Return(t, 1, FALSE)
    /\ Frame /\ NoAsk /\ NoStore

(* ---------------------------- specification ---------------------------- *)
Next ==
    \E t \in Threads :
        \/ GuardHit(t)
        \/ GuardMiss(t)
        \/ WinResolve(t)
        \/ WinGlpi(t)
        \/ WinMalloc(t)
        \/ WinMallocFails(t)
        \/ WinWalkSkip(t)
        \/ WinWalkLoad(t)
        \/ WinWalkAdd(t)
        \/ WinWalkDone(t)
        \/ WinFailed(t)
        \/ WinJustInCase(t)
        \/ WinSetOne(t)
        \/ WinFailedReturn(t)
        \/ AppleSysctl(t)
        \/ AppleFallback(t)
        \/ AppleReturn(t)
        \/ PosixSysconf(t)
        \/ PosixSentinel(t)
        \/ PosixSetOne(t)
        \/ PosixReturn(t)
        \/ LinuxSysconf(t)
        \/ LinuxSentinel(t)
        \/ LinuxSetOne(t)
        \/ LinuxFopen(t)
        \/ LinuxNoFileReturn(t)
        \/ LinuxFgets(t)
        \/ LinuxFgetsError(t)
        \/ LinuxRatio(t)
        \/ LinuxFclose(t)
        \/ FreeBSDCores(t)
        \/ FreeBSDThreadsPerCore(t)
        \/ FreeBSDScaleLoad(t)
        \/ FreeBSDScaleStore(t)
        \/ FreeBSDFatal(t)
        \/ FreeBSDFallThrough(t)
        \/ FreeBSDSysconf(t)
        \/ FreeBSDSentinel(t)
        \/ FreeBSDSetOne(t)
        \/ FreeBSDReturn(t)
        \/ UnknownCountCores(t)

Spec == Init /\ [][Next]_vars

SeqSpec == SeqInit /\ [][Next]_vars

\* a step of a call of the Windows backend that has passed the guard
WinStep(t) ==
    \/ WinResolve(t)
    \/ WinGlpi(t)
    \/ WinMalloc(t)
    \/ WinMallocFails(t)
    \/ WinWalkSkip(t)
    \/ WinWalkLoad(t)
    \/ WinWalkAdd(t)
    \/ WinWalkDone(t)
    \/ WinFailed(t)
    \/ WinJustInCase(t)
    \/ WinSetOne(t)
    \/ WinFailedReturn(t)

\* calls one after another, and the thread inside a call keeps running
FairSeqSpec == SeqSpec /\ WF_vars(\E t \in Threads : WinStep(t))

(* ----------------------- CountSetBits on its own ----------------------- *)
\* every value of a ULONG_PTR
Masks == 0..(Pow2(PtrBits) - 1)

\* the Windows build before any call of UTIL_countCores; CountSetBits is
\* about to be called with any mask
BitsInit ==
    /\ csb \in {CsbEntry(m) : m \in Masks}
    /\ backend = "win32"
    /\ concurrent = FALSE
    /\ numCores = 0
    /\ pc = [t \in Threads |-> "idle"]
    /\ loc = [t \in Threads |-> InitLoc]
    /\ calls = 0
    /\ exited = FALSE
    /\ retVal = [t \in Threads |-> 0]
    /\ nret = 0
    /\ firstRet = 0
    /\ passes = 0
    /\ lateWork = FALSE
    /\ told = [q \in Queries |-> <<>>]
    /\ consistent = TRUE
    /\ lastWriter = {}
    /\ seen = [t \in Threads |-> {}]
    /\ halfObserved = FALSE

CountCoresUnchanged ==
    UNCHANGED <<backend, concurrent, numCores, pc, loc, calls, exited, retVal, nret,
                firstRet, passes, lateWork, told, consistent, lastWriter, seen,
                halfObserved>>

\* DWORD bitSetCount = 0; ULONG_PTR bitTest = (ULONG_PTR)1 << LSHIFT; i = 0
CsbEnter ==
    /\ csb.pc = "entry"
    /\ csb' = [csb EXCEPT !.pc = "loop", !.bitSetCount = 0,
                          !.bitTest = Pow2(LSHIFT) % Pow2(PtrBits), !.i = 0]
    /\ CountCoresUnchanged

\* bitSetCount += ((bitMask & bitTest) ? 1 : 0); bitTest /= 2; ++i
CsbIterate ==
    /\ csb.pc = "loop"
    /\ LoopContinues(csb.i)
    /\ csb' = [csb EXCEPT !.bitSetCount = @ + BitHit(csb.bitMask, csb.bitTest),
                          !.bitTest = @ \div 2,
                          !.i = @ + 1,
                          !.tested = Append(@, csb.bitTest)]
    /\ CountCoresUnchanged

\* return bitSetCount;
CsbReturn ==
    /\ csb.pc = "loop"
    /\ ~LoopContinues(csb.i)
    /\ csb' = [csb EXCEPT !.pc = "done", !.result = csb.bitSetCount]
    /\ CountCoresUnchanged

BitsNext == CsbEnter \/ CsbIterate \/ CsbReturn

BitsSpec == BitsInit /\ [][BitsNext]_vars

(* ------------------------------- claims -------------------------------- *)
\* the last call of t has returned, and loc[t] still describes it
Returned(t) == pc[t] = "idle" /\ loc[t].path # "none"

\* that call ran the backend (it got past the cache guard)
RanBackend(t) == Returned(t) /\ loc[t].path \notin {"hit", "unknown"}

\* the result the generic sysconf method gives for the answer v
Baseline(v) == IF v = -1 THEN 1 ELSE v

\* number of set bits of m, by counting the bit positions that are set
PopCount(m) == Cardinality({i \in 0..(PtrBits - 1) : (m \div Pow2(i)) % 2 = 1})

RECURSIVE CoreSum(_)
CoreSum(topo) ==
    IF topo = <<>> THEN 0
    ELSE (IF Head(topo).Relationship = RelationProcessorCore
          THEN PopCount(Head(topo).ProcessorMask) ELSE 0) + CoreSum(Tail(topo))

\* C1: every call of UTIL_countCores that returns, returns an integer >= 1,
\* on every backend and whatever the OS answered.
C1_ReturnsAtLeastOne == \A t \in Threads : Returned(t) => retVal[t] >= 1

\* C2: when the calls are made one after another, the detection work runs at
\* most once: at most one call gets past the cache guard, and no OS query,
\* file operation or allocation is issued once a call has returned.
C2_DetectionAtMostOnce == passes <= 1 /\ ~lateWork

C2_Witness ==
    /\ ~concurrent
    /\ nret >= 2
    /\ passes = 1
    /\ \E q \in Queries : told[q] # <<>>

\* C3: when the calls are made one after another, every call returns the value
\* the first call returned.
C3_SameAsFirstCall == \A t \in Threads : Returned(t) => retVal[t] = firstRet

C3_Witness ==
    /\ ~concurrent
    /\ nret = MaxCalls
    /\ firstRet > 1
    /\ \E t \in Threads : Returned(t) /\ loc[t].path = "hit" /\ retVal[t] = firstRet

\* C4: when the OS answers every query the same way each time, concurrent
\* calls and all later calls return one and the same value.
C4_ConcurrentCallsAgree ==
    consistent => \A t \in Threads : Returned(t) => retVal[t] = firstRet

\* C5: no call returns a content of numCores that the pass which wrote it
\* goes on to replace (a partial sum, the -1 of sysconf, the unscaled count).
C5_NoHalfWrittenValue == ~halfObserved

\* C6: once numCores holds a value >= 1 it is never given another value.
C6_WrittenOnce == [][numCores >= 1 => numCores' = numCores]_vars

C8_WindowsFallback ==
    backend = "win32" =>
        \A t \in Threads :
            Returned(t) /\ loc[t].path = "failed" =>
                retVal[t] = (IF loc[t].dwNumberOfProcessors = 0 THEN 1
                             ELSE loc[t].dwNumberOfProcessors)

C8_Witness ==
    /\ backend = "win32"
    /\ \E t \in Threads :
          /\ Returned(t) /\ loc[t].path = "failed"
          /\ ~loc[t].glpi
          /\ loc[t].dwNumberOfProcessors = 0 /\ retVal[t] = 1

\* C9: Windows: a first call whose enumeration succeeded returns the sum, over
\* the processor-core entries of the buffer, of the set bits of their masks.
C9_WindowsCoreSum ==
    backend = "win32" =>
        \A t \in Threads :
            Returned(t) /\ loc[t].path = "walk" => retVal[t] = CoreSum(loc[t].buffer)

C9_Witness ==
    /\ backend = "win32"
    /\ \E t \in Threads :
          /\ Returned(t) /\ loc[t].path = "walk"
          /\ loc[t].nGlpi = 2
          /\ \E i \in 1..Len(loc[t].buffer) : loc[t].buffer[i].Relationship = RelationCache
          /\ retVal[t] = PtrBits

\* C10: FreeBSD: when kern.smp.cores fails with ENOENT the process goes on and
\* the call returns the sysconf result; a build without the query never
\* issues it and returns the sysconf result.
C10_FreeBSDNotSupported ==
    /\ backend = "freebsd" =>
          \A t \in Threads :
              loc[t].errno = ENOENT /\ loc[t].cores = 0 =>
                  /\ pc[t] # "exit"
                  /\ Returned(t) => retVal[t] = Baseline(loc[t].base)
    /\ backend = "freebsd_old" =>
          /\ told["kern.smp.cores"] = <<>>
          /\ ~exited
          /\ \A t \in Threads : RanBackend(t) => retVal[t] = Baseline(loc[t].base)

C10_Witness ==
    /\ backend = "freebsd"
    /\ ~exited
    /\ \E t \in Threads :
          /\ Returned(t) /\ loc[t].path = "enoent"
          /\ loc[t].errno = ENOENT
          /\ loc[t].base = 2 /\ retVal[t] = 2

\* the sysctl query of t's call that failed, failed otherwise than by ENOENT
OtherSysctlError(t) == loc[t].errno \notin {NoError, ENOENT}

\* C11 as stated: FreeBSD: after a failure, other than not-supported, of the
\* physical-core query or of the threads-per-core query, the call returns no
\* value.
C11_AnySysctlFailureFatal ==
    backend = "freebsd" =>
        \A t \in Threads : OtherSysctlError(t) => ~Returned(t)

\* C11: FreeBSD: a failure of kern.smp.cores other than ENOENT is fatal: the
\* call goes to perror and exit(1), the process ends, and the call returns or
\* caches no value; a failure of kern.smp.threads_per_core never ends the process.
C11_CoresFailureFatal ==
    backend = "freebsd" =>
        \A t \in Threads :
            /\ OtherSysctlError(t) /\ loc[t].cores = 0 =>
                  /\ pc[t] \in {"errno", "exit"}
                  /\ pc[t] = "exit" =>
                        exited /\ loc[t].exitStatus # 0 /\ loc[t].perror # ""
                  /\ retVal[t] = 0 /\ numCores = 0
            /\ loc[t].path = "unscaled" => pc[t] # "exit"

C11_Witness ==
    /\ backend = "freebsd"
    /\ exited
    /\ \E t \in Threads :
          /\ pc[t] = "exit" /\ loc[t].path = "exit" /\ loc[t].exitStatus = 1
          /\ loc[t].errno = EIO /\ loc[t].cores = 0
          /\ nret = 0 /\ numCores = 0

\* C12: Apple: the call that runs the backend issues hw.logicalcpu exactly
\* once; when the query fails it returns 1 and leaves 1 in the cache, when it
\* succeeds it returns the reported value and leaves that in the cache.
C12_AppleOneQuery ==
    backend = "apple" =>
        /\ ~exited
        /\ \A t \in Threads :
              RanBackend(t) =>
                  /\ loc[t].nSysctl = 1
                  /\ loc[t].ret # 0 => retVal[t] = 1 /\ numCores = 1
                  /\ loc[t].ret = 0 =>
                        retVal[t] = loc[t].logicalcpu /\ numCores = loc[t].logicalcpu

C12_Witness ==
    /\ backend = "apple"
    /\ \E t \in Threads :
          /\ RanBackend(t)
          /\ loc[t].ret = -1 /\ loc[t].errno = EIO /\ loc[t].path = "fallback"
          /\ retVal[t] = 1 /\ numCores = 1

C12_WitnessSuccess ==
    /\ backend = "apple"
    /\ \E t \in Threads :
          /\ RanBackend(t)
          /\ loc[t].ret = 0 /\ loc[t].logicalcpu = MaxCpu
          /\ retVal[t] = MaxCpu /\ numCores = MaxCpu

\* C13: when a call has returned, by whatever path, every buffer it allocated
\* has been freed and every file it opened has been closed.
C13_ResourcesReleased ==
    \A t \in Threads : Returned(t) => loc[t].live = 0 /\ ~loc[t].open

\* C14: FreeBSD: after kern.smp.cores succeeded the next query is
\* kern.smp.threads_per_core; the call returns the physical-core count when
\* that query failed and cores * threads-per-core when it succeeded, and the
\* value returned is the value left in numCores.
C14_FreeBSDScaling ==
    backend = "freebsd" =>
        \A t \in Threads :
            loc[t].cores # 0 =>
                /\ loc[t].nSysctl = 1 <=> pc[t] = "threads_per_core"
                /\ Returned(t) =>
                      /\ loc[t].nSysctl = 2
                      /\ told["kern.smp.threads_per_core"] # <<>>
                      /\ told["sysconf"] = <<>>
                      /\ retVal[t] = (IF loc[t].ret # 0 THEN loc[t].cores
                                      ELSE loc[t].cores * loc[t].perCore)
                      /\ numCores = retVal[t]

C14_Witness ==
    /\ backend = "freebsd"
    /\ \E t \in Threads :
          /\ Returned(t) /\ loc[t].path = "scaled"
          /\ loc[t].cores = MaxCpu /\ loc[t].perCore = 2
          /\ retVal[t] = 2 * MaxCpu /\ numCores = 2 * MaxCpu

C14_WitnessUnscaled ==
    /\ backend = "freebsd"
    /\ \E t \in Threads :
          /\ Returned(t) /\ loc[t].path = "unscaled"
          /\ loc[t].ret = -1 /\ loc[t].cores = MaxCpu
          /\ retVal[t] = MaxCpu /\ numCores = MaxCpu

\* C15: generic POSIX: the call that runs the backend returns 1 when sysconf
\* answered -1 and the answer itself otherwise, and the value returned is the
\* value left in numCores for the later calls.
C15_PosixSentinelOrCount ==
    backend = "posix" =>
        /\ ~exited
        /\ \A t \in Threads :
              RanBackend(t) =>
                  /\ retVal[t] = (IF loc[t].base = -1 THEN 1 ELSE loc[t].base)
                  /\ numCores = retVal[t]
        /\ \A t \in Threads :
              Returned(t) /\ loc[t].path = "hit" => retVal[t] = numCores

C15_Witness ==
    /\ backend = "posix"
    /\ \E t, u \in Threads :
          /\ RanBackend(t) /\ loc[t].base = -1 /\ retVal[t] = 1
          /\ Returned(u) /\ loc[u].path = "hit" /\ retVal[u] = 1

C15_WitnessCount ==
    /\ backend = "posix"
    /\ \E t \in Threads :
          RanBackend(t) /\ loc[t].base = MaxCpu /\ retVal[t] = MaxCpu /\ numCores = MaxCpu

\* C16: Windows: when malloc returns NULL in the growth loop the call goes to
\* perror and exit(1): the process ends with a diagnostic and a non-zero
\* status, GetSystemInfo is not asked, and nothing is returned or cached.
C16_WindowsMallocFatal ==
    backend = "win32" =>
        \A t \in Threads :
            loc[t].mallocNull =>
                /\ pc[t] = "exit" /\ exited
                /\ loc[t].exitStatus # 0 /\ loc[t].perror # ""
                /\ told["GetSystemInfo"] = <<>>
                /\ nret = 0 /\ retVal[t] = 0 /\ numCores = 0

C16_Witness ==
    /\ backend = "win32"
    /\ exited
    /\ \E t \in Threads :
          /\ loc[t].mallocNull /\ pc[t] = "exit"
          /\ loc[t].nMalloc = 2 /\ loc[t].live = 0
          /\ loc[t].exitStatus = 1 /\ nret = 0 /\ numCores = 0

\* t is inside the while(!done) loop of the Windows backend
InLoop(t) == backend = "win32" /\ pc[t] \in {"glpi", "malloc"}

\* the shape of the growth loop at every step of it
C17_LoopShape ==
    backend = "win32" =>
        \A t \in Threads :
            LET l == loc[t]
                n == l.nGlpi
            IN  /\ Len(l.errors) = n
                \* glpi is called again only after ERROR_INSUFFICIENT_BUFFER
                /\ \A i \in 1..(n - 1) : l.errors[i] = ERROR_INSUFFICIENT_BUFFER
                /\ pc[t] = "malloc" => n >= 1 /\ l.errors[n] = ERROR_INSUFFICIENT_BUFFER
                \* and then with a new block of the size the OS reported last
                /\ pc[t] = "glpi" /\ n >= 1 =>
                      /\ l.errors[n] = ERROR_INSUFFICIENT_BUFFER
                      /\ l.allocated /\ l.live = 1 /\ l.nMalloc = n
                      /\ l.capacity = l.returnLength
                \* every retry has grown the size, which the OS bounds
                /\ InLoop(t) =>
                      /\ n * SizeofSLPI <= l.returnLength
                      /\ l.returnLength <= MaxEntries * SizeofSLPI
                      /\ ~exited => ENABLED (WinGlpi(t) \/ WinMalloc(t) \/ WinMallocFails(t))
                \* the loop is left on success or on another error
                /\ Returned(t) /\ l.glpi =>
                      /\ n >= 1 /\ n <= MaxEntries + 1
                      /\ l.path = "walk" <=> l.errors[n] = ERROR_SUCCESS
                      /\ l.path = "failed" <=> l.errors[n] = ERROR_GEN_FAILURE
                \* two calls when the second is given the size the first reported
                /\ n >= 2 /\ l.errors[2] = ERROR_SUCCESS => n = 2

\* C17: Windows: the growth loop calls glpi again only after
\* ERROR_INSUFFICIENT_BUFFER, each time with a newly allocated buffer of the
\* size the OS reported last; with an OS whose answers end in success or in
\* another error, a call that is in the loop leaves it and returns (or the
\* process exits on a failed malloc); it makes exactly two calls of glpi when
\* the second call succeeds.
C17_LoopTerminates ==
    /\ []C17_LoopShape
    /\ \A t \in Threads : InLoop(t) ~> (pc[t] \in {"idle", "exit"})

C17_Witness ==
    /\ backend = "win32"
    /\ \E t \in Threads :
          /\ Returned(t) /\ loc[t].path = "walk"
          /\ loc[t].errors = <<ERROR_INSUFFICIENT_BUFFER, ERROR_INSUFFICIENT_BUFFER, ERROR_SUCCESS>>
          /\ loc[t].nMalloc = 2 /\ loc[t].live = 0
          /\ loc[t].capacity = 2 * SizeofSLPI

C17_WitnessTwoCalls ==
    /\ backend = "win32"
    /\ \E t \in Threads :
          /\ Returned(t) /\ loc[t].path = "walk"
          /\ loc[t].errors = <<ERROR_INSUFFICIENT_BUFFER, ERROR_SUCCESS>>
          /\ loc[t].nGlpi = 2 /\ loc[t].nMalloc = 1

\* the bits of a word, each once, from the most to the least significant
MsbToLsb == [k \in 1..PtrBits |-> Pow2(PtrBits - k)]

\* C18: for every mask of the word width CountSetBits returns the number of
\* bits set in the mask, having tested each bit once from the most
\* significant to the least significant; the value UTIL_countCores adds is
\* that number too.
C18_CountSetBitsIsPopCount ==
    /\ Len(csb.tested) <= PtrBits
    /\ \A k \in 1..Len(csb.tested) : csb.tested[k] = MsbToLsb[k]
    /\ csb.pc = "done" =>
          /\ csb.result = PopCount(csb.bitMask)
          /\ csb.tested = MsbToLsb
          /\ CountSetBits(csb.bitMask) = csb.result

C18_Witness ==
    /\ csb.pc = "done"
    /\ csb.bitMask = Pow2(LSHIFT) + 1
    /\ csb.tested = MsbToLsb
    /\ csb.result = 2

====
